---- MODULE Spec2Model ----
(***************************************************************************)
(* Verification model of two files of pymedphys:                           *)
(*   tests/test_mudensity/test_single_mlc.py                               *)
(*       single_mlc_pair and its two tests, driving the single leaf pair   *)
(*       MU density accumulator calc_single_control_point;                 *)
(*   lib/pymedphys/_experimental/streamlit/apps/mosaiq_qcl_counter.py      *)
(*       the "Completed Mosaiq QCL Counter" dashboard script.              *)
(*                                                                         *)
(* Lengths are integers in ticks of 0.01 (so 2.7 is 270 and a grid         *)
(* resolution of 1 is 100).  A density is kept as an exact numerator over  *)
(* Den(grid_resolution, time_steps), never as a rounded number.            *)
(***************************************************************************)
EXTENDS Integers, Sequences, FiniteSets, TLC

VARIABLES
    \* ---- test_single_mlc.py ----
    test,               \* which caller: "any", "stationary" or "variance"
    left_mlc,           \* <<start, end>> of the left leaf edge, ticks
    right_mlc,          \* <<start, end>> of the right leaf edge, ticks
    grid_resolution,    \* ticks
    time_steps,
    mlc_pc,             \* "call" -> "returned", "raised" or "averaged"
    x,                  \* grid['mlc'] returned by single_mlc_pair
    mu_density,         \* mu_density[0, :] returned, as numerators
    x_fine,             \* second call of test_minimal_variance_with_resolution
    mu_density_fine,
    reference,          \* index of the nearest coarse cell of each fine cell
    average_mu_density_fine, \* <<sum, count>> per coarse cell 2 .. len-3
    \* ---- mosaiq_qcl_counter.py: the default date range of main ----
    now,                    \* datetime.datetime.now(): [y, m, d, h]
    start_of_last_month,    \* [y, m, d, h] or "unset"
    chosen_start,           \* [y, m, d] or "unset"
    default_delta_month,
    next_month,
    chosen_end,
    date_pc,                \* "start" -> "done"
    \* ---- mosaiq_qcl_counter.py: main, rerun by the host on every interaction ----
    config,             \* config["site"]: sequence of site records
    reset_widget_id,    \* session_state.reset_widget_id, kept across reruns
    widget_ids,         \* counter values in the keys of widgets created so far
    run,                \* number of the current run of main
    main_pc,
    raised,             \* "none" or the exception that ended the run
    site_config_map,    \* function: site name -> entry
    site_options,       \* list(site_config_map.keys()), in insertion order
    selected_sites,
    connections,        \* sequence of <<site, connection>>, in insertion order
    pressed,            \* what st.button returned in this run
    id_at_start,        \* reset_widget_id when this run began
    presses,            \* times the reset button has been pressed in the session
    widget_keys,        \* counter value in each date widget's key, this run
    all_results,        \* sequence of <<site, rows>>
    concatenated_results,
    markdown_counts,    \* sequence of <<task, count>>
    log                 \* calls made on the host and the collaborators, this run

mlc_vars == <<test, left_mlc, right_mlc, grid_resolution, time_steps, mlc_pc,
              x, mu_density, x_fine, mu_density_fine, reference,
              average_mu_density_fine>>

date_vars == <<now, start_of_last_month, chosen_start, default_delta_month,
               next_month, chosen_end, date_pc>>

main_vars == <<config, reset_widget_id, widget_ids, run, main_pc, raised,
               site_config_map, site_options, selected_sites, connections,
               pressed, id_at_start, presses, widget_keys, all_results,
               concatenated_results, markdown_counts, log>>

vars == <<mlc_vars, date_vars, main_vars>>

-----------------------------------------------------------------------------
(* Bounds of the model *)

MaxPos == 3          \* leaf positions are 90 * k ticks, k in -MaxPos..MaxPos
MaxTimeSteps == 3    \* time_steps of the explored calls: 0..MaxTimeSteps

(* Constants of the tests *)
TestTimeSteps == 1000
CoarseResolution == 100      \* grid_resolution = 1
FineResolution == 1          \* grid_resolution = 0.01

-----------------------------------------------------------------------------
(* Arithmetic helpers *)

Min2(a, b) == IF a <= b THEN a ELSE b
Max2(a, b) == IF a >= b THEN a ELSE b
Abs(a) == IF a >= 0 THEN a ELSE -a

\* numpy.round(p / res): nearest integer, halves to the even neighbour.
NpRound(p, res) ==
    LET f == p \div res
        rem == p - f * res
    IN  IF 2 * rem < res THEN f
        ELSE IF 2 * rem > res THEN f + 1
        ELSE IF f % 2 = 0 THEN f ELSE f + 1

-----------------------------------------------------------------------------
(* The accumulator: calc_single_control_point for one leaf pair *)

\* Number of interpolation intervals between the two control points.
Steps(T) == IF T > 1 THEN T - 1 ELSE 1

\* Position of an edge at sample i (0 .. T-1), linearly interpolated from
\* start to end inclusive, scaled by 2 * Steps(T).
Travel(start, end, i, T) == 2 * (start * Steps(T) + i * (end - start))

\* Fraction of a cell blocked by one leaf, as a numerator over 2 * half,
\* given the signed distance travel_diff from the leaf edge to the cell centre
\* (positive: the centre is on the open side).
calc_blocked_t(travel_diff, half) ==
    IF travel_diff <= -half THEN 2 * half
    ELSE IF travel_diff >= half THEN 0
    ELSE half - travel_diff

\* Open fraction of the cell centred at c at sample i, numerator over
\* 2 * Steps(T) * res.  mlc[cp] = <<-left edge, right edge>> at control point cp.
OpenAt(c, mlc, res, T, i) ==
    LET centre == 2 * Steps(T) * c
        half == Steps(T) * res
        l == Travel(-mlc[1][1], -mlc[2][1], i, T)
        r == Travel(mlc[1][2], mlc[2][2], i, T)
        open == 2 * half - calc_blocked_t(centre - l, half)
                         - calc_blocked_t(r - centre, half)
    IN  IF open < 0 THEN 0 ELSE open

\* Sum of OpenAt over the samples lo .. hi (split in halves: depth log T).
RECURSIVE SumOpen(_, _, _, _, _, _)
SumOpen(c, mlc, res, T, lo, hi) ==
    IF lo > hi THEN 0
    ELSE IF lo = hi THEN OpenAt(c, mlc, res, T, lo)
    ELSE LET mid == (lo + hi) \div 2
         IN  SumOpen(c, mlc, res, T, lo, mid) + SumOpen(c, mlc, res, T, mid + 1, hi)

\* Cell centres, grid_resolution apart, from the rounded lowest to the rounded
\* highest position either edge takes.
McGrid(mlc, res) ==
    LET lo == NpRound(Min2(Min2(-mlc[1][1], -mlc[2][1]), Min2(mlc[1][2], mlc[2][2])), res)
        hi == NpRound(Max2(Max2(-mlc[1][1], -mlc[2][1]), Max2(mlc[1][2], mlc[2][2])), res)
    IN  [k \in 1 .. (hi - lo + 1) |-> (lo + k - 1) * res]

\* Denominator of every density numerator.
Den(res, T) == T * 2 * Steps(T) * res

\* Open fraction of the one leaf row under the jaws, numerator over
\* 2 * width.  jaw = <<lower jaw, upper jaw>> distances from the axis in
\* half ticks; the row is centred on the axis.
JawOpen(jaw, width) ==
    LET open == 2 * width - calc_blocked_t(jaw[1], width)
                          - calc_blocked_t(jaw[2], width)
    IN  IF open < 0 THEN 0 ELSE open

\* a * j / d without an intermediate product (exact when d divides a * j, as
\* it does when the jaws leave the row fully open: j = d).
MulDiv(a, j, d) == (a \div d) * j + ((a % d) * j) \div d

\* Returns the grid of both devices and mu_density[row][column], one row per
\* leaf pair; fails on time_steps < 1 or grid_resolution <= 0.
calc_single_control_point(mlc, jaw, leaf_pair_widths, res, T) ==
    IF T < 1 \/ res <= 0 THEN [raised |-> "ValueError"]
    ELSE LET g == McGrid(mlc, res)
             w == leaf_pair_widths[1]
             j == JawOpen(jaw[1], w)
         IN  [raised |-> "none",
              grid |-> [mlc |-> g, jaw |-> <<0>>],
              mu_density |->
                  <<[k \in DOMAIN g |->
                       MulDiv(SumOpen(g[k], mlc, res, T, 0, T - 1), j, 2 * w)]>>]

\* A variant that hands the left edge over without negating it.
single_mlc_pair_unnegated(left, right, res, T) ==
    LET ret == calc_single_control_point(
                   <<<<left[1], right[1]>>, <<left[2], right[2]>>>>,
                   <<<<res, res>>, <<res, res>>>>, <<res>>, res, T)
    IN  IF ret.raised = "none"
        THEN [raised |-> "none", grid |-> ret.grid.mlc, mu_density |-> ret.mu_density[1]]
        ELSE ret

\* A variant that returns the jaw grid beside the leaf pair's densities.
single_mlc_pair_jaw_grid(left, right, res, T) ==
    LET ret == calc_single_control_point(
                   <<<<-left[1], right[1]>>, <<-left[2], right[2]>>>>,
                   <<<<res, res>>, <<res, res>>>>, <<res>>, res, T)
    IN  IF ret.raised = "none"
        THEN [raised |-> "none", grid |-> ret.grid.jaw, mu_density |-> ret.mu_density[1]]
        ELSE ret

\* The test helper: one leaf pair of width grid_resolution, both jaws half a
\* grid_resolution from the axis at both control points; the left edge is
\* stored negated in the mlc array.  Returns grid['mlc'] and mu_density[0, :].
single_mlc_pair(left, right, res, T) ==
    LET ret == calc_single_control_point(
                   <<<<-left[1], right[1]>>, <<-left[2], right[2]>>>>,
                   <<<<res, res>>, <<res, res>>>>, <<res>>, res, T)
    IN  IF ret.raised = "none"
        THEN [raised |-> "none", grid |-> ret.grid.mlc, mu_density |-> ret.mu_density[1]]
        ELSE ret

-----------------------------------------------------------------------------
(* Specification of the accumulator calls *)

Positions == {90 * k : k \in -MaxPos .. MaxPos}
Resolutions == {0, 30, CoarseResolution}

InitMlcRest ==
    /\ mlc_pc = "call"
    /\ x = <<>>
    /\ mu_density = <<>>
    /\ x_fine = <<>>
    /\ mu_density_fine = <<>>
    /\ reference = <<>>
    /\ average_mu_density_fine = <<>>

\* Trajectories of the resolution comparison: the test's own and the short ones.
MaxVarPos == 2
MaxVarTimeSteps == 2
VarPositions == {90 * k : k \in -MaxVarPos .. MaxVarPos}

\* The dashboard is idle while the accumulator is exercised.
IdleMain ==
    /\ config = <<>>
    /\ reset_widget_id = 0
    /\ widget_ids = {}
    /\ run = 0
    /\ main_pc = "idle"
    /\ raised = "none"
    /\ site_config_map = <<>>
    /\ site_options = <<>>
    /\ selected_sites = <<>>
    /\ connections = <<>>
    /\ pressed = FALSE
    /\ id_at_start = 0
    /\ presses = 0
    /\ widget_keys = <<>>
    /\ all_results = <<>>
    /\ concatenated_results = <<>>
    /\ markdown_counts = <<>>
    /\ log = <<>>

IdleDates ==
    /\ IdleMain
    /\ now = "unset"
    /\ start_of_last_month = "unset"
    /\ chosen_start = "unset"
    /\ default_delta_month = 0
    /\ next_month = "unset"
    /\ chosen_end = "unset"
    /\ date_pc = "idle"

InitMlc ==
    /\ IdleDates
    /\ \/ /\ test = "any"
          /\ left_mlc \in Positions \X Positions
          /\ right_mlc \in Positions \X Positions
          /\ grid_resolution \in Resolutions
          /\ time_steps \in 0 .. MaxTimeSteps
       \/ /\ test = "stationary"
          /\ left_mlc = <<-100, -100>>
          /\ right_mlc = <<270, 270>>
          /\ grid_resolution = CoarseResolution
          /\ time_steps = TestTimeSteps
    /\ InitMlcRest

InitVar ==
    /\ IdleDates
    /\ test = "variance"
    /\ \/ /\ left_mlc = <<-230, 310>>
          /\ right_mlc = <<0, 770>>
          /\ time_steps = TestTimeSteps
       \/ /\ left_mlc \in VarPositions \X VarPositions
          /\ right_mlc \in VarPositions \X VarPositions
          /\ time_steps \in 1 .. MaxVarTimeSteps
    /\ grid_resolution = CoarseResolution
    /\ InitMlcRest

\* A call of single_mlc_pair with any arguments, and the call made by
\* test_stationary_partial_occlusion.
SingleMlcPair ==
    /\ mlc_pc = "call"
    /\ \E ret \in {single_mlc_pair(left_mlc, right_mlc, grid_resolution, time_steps)} :
           IF ret.raised = "none"
           THEN /\ x' = ret.grid
                /\ mu_density' = ret.mu_density
                /\ mlc_pc' = "returned"
           ELSE /\ mlc_pc' = "raised"
                /\ UNCHANGED <<x, mu_density>>
    /\ UNCHANGED <<test, left_mlc, right_mlc, grid_resolution, time_steps,
                   x_fine, mu_density_fine, reference, average_mu_density_fine>>
    /\ UNCHANGED <<date_vars, main_vars>>

\* np.argmin(np.abs(x_fine[None, :] - x_coarse[:, None]), axis=0): for each
\* fine cell the first coarse cell at the least distance.
ArgMinCoarse(xf, xc) ==
    [j \in DOMAIN xf |->
        CHOOSE i \in DOMAIN xc :
            \A i2 \in DOMAIN xc :
                \/ Abs(xf[j] - xc[i]) < Abs(xf[j] - xc[i2])
                \/ Abs(xf[j] - xc[i]) = Abs(xf[j] - xc[i2]) /\ i <= i2]

\* <<sum, count>> of mu[j] over the j in lo .. hi with ref[j] = i.
RECURSIVE SumWhere(_, _, _, _, _)
SumWhere(mu, ref, i, lo, hi) ==
    IF lo > hi THEN <<0, 0>>
    ELSE IF lo = hi THEN (IF ref[lo] = i THEN <<mu[lo], 1>> ELSE <<0, 0>>)
    ELSE LET mid == (lo + hi) \div 2
             a == SumWhere(mu, ref, i, lo, mid)
             b == SumWhere(mu, ref, i, mid + 1, hi)
         IN  <<a[1] + b[1], a[2] + b[2]>>

\* A variant whose loop starts one coarse cell early: range(1, len(x_coarse) - 3).
FineAveragesShifted(mu, ref, ncoarse) ==
    [n \in 1 .. (IF ncoarse > 4 THEN ncoarse - 4 ELSE 0) |->
        SumWhere(mu, ref, n + 1, 1, Len(mu))]

\* np.mean(mu_density_fine[reference == i]) for i in range(2, len(x_coarse) - 2),
\* each mean kept as <<sum, count>>; entry n is coarse cell n + 2 (from 1).
FineAverages(mu, ref, ncoarse) ==
    [n \in 1 .. (IF ncoarse > 4 THEN ncoarse - 4 ELSE 0) |->
        SumWhere(mu, ref, n + 2, 1, Len(mu))]

\* test_minimal_variance_with_resolution up to its assertion: the coarse and
\* the fine call, the nearest-cell assignment and the averages.
TestMinimalVariance ==
    /\ mlc_pc = "call"
    /\ test = "variance"
    /\ \E coarse \in {single_mlc_pair(left_mlc, right_mlc, CoarseResolution, time_steps)},
          fine \in {single_mlc_pair(left_mlc, right_mlc, FineResolution, time_steps)} :
           /\ x' = coarse.grid
           /\ mu_density' = coarse.mu_density
           /\ x_fine' = fine.grid
           /\ mu_density_fine' = fine.mu_density
    /\ reference' = ArgMinCoarse(x_fine', x')
    /\ average_mu_density_fine' = FineAverages(mu_density_fine', reference', Len(x'))
    /\ mlc_pc' = "averaged"
    /\ UNCHANGED <<test, left_mlc, right_mlc, grid_resolution, time_steps>>
    /\ UNCHANGED <<date_vars, main_vars>>

NextMlc == SingleMlcPair

SpecMlc == InitMlc /\ [][NextMlc]_vars

NextVar == TestMinimalVariance

SpecVar == InitVar /\ [][NextVar]_vars

-----------------------------------------------------------------------------
(* Calendar arithmetic of datetime and dateutil.relativedelta *)

IsLeap(y) == y % 4 = 0 /\ (y % 100 # 0 \/ y % 400 = 0)

DaysInMonth(y, m) ==
    IF m = 2 THEN (IF IsLeap(y) THEN 29 ELSE 28)
    ELSE IF m \in {4, 6, 9, 11} THEN 30 ELSE 31

\* datetime - datetime.timedelta(days=1)
MinusOneDay(dt) ==
    IF dt.d > 1 THEN [dt EXCEPT !.d = dt.d - 1]
    ELSE IF dt.m > 1
         THEN [dt EXCEPT !.m = dt.m - 1, !.d = DaysInMonth(dt.y, dt.m - 1)]
         ELSE [dt EXCEPT !.y = dt.y - 1, !.m = 12, !.d = 31]

\* dt.replace(day=1)
get_start_of_month(dt) == [dt EXCEPT !.d = 1]

\* A variant without the step back of one day.
StartOfThisMonth(dt) == get_start_of_month(get_start_of_month(dt))

get_start_of_last_month(dt) ==
    LET definitely_in_last_month == MinusOneDay(get_start_of_month(dt))
    IN  get_start_of_month(definitely_in_last_month)

\* The date a date_input shows for a datetime value.
DateOf(dt) == [y |-> dt.y, m |-> dt.m, d |-> dt.d]

\* date + dateutil.relativedelta.relativedelta(months=n), n >= 0: the month
\* moves on by n and the day is cut to the length of the month reached.
AddMonths(date, n) ==
    LET k == (date.m - 1) + n
        y == date.y + (k \div 12)
        m == (k % 12) + 1
    IN  [y |-> y, m |-> m, d |-> Min2(date.d, DaysInMonth(y, m))]

-----------------------------------------------------------------------------
(* The default date range of main, from every current date-time *)

MaxYearsAhead == 1      \* years explored: 2019 .. 2020 + MaxYearsAhead, 2000, 2100
MaxDeltaMonth == 2      \* values the month delta widget is given: 0 .. MaxDeltaMonth

Years == (2019 .. 2020 + MaxYearsAhead) \cup {2000, 2100}

DateTimes ==
    {[y |-> yy, m |-> mm, d |-> dd, h |-> hh] :
        yy \in Years, mm \in 1 .. 12, dd \in 1 .. 31, hh \in {0, 23}}

ValidDateTimes == {dt \in DateTimes : dt.d <= DaysInMonth(dt.y, dt.m)}

\* The accumulator is idle while the dashboard is exercised.
IdleMlc ==
    /\ test = "none"
    /\ left_mlc = <<0, 0>>
    /\ right_mlc = <<0, 0>>
    /\ grid_resolution = 0
    /\ time_steps = 0
    /\ mlc_pc = "idle"
    /\ x = <<>>
    /\ mu_density = <<>>
    /\ x_fine = <<>>
    /\ mu_density_fine = <<>>
    /\ reference = <<>>
    /\ average_mu_density_fine = <<>>

InitDate ==
    /\ IdleMlc
    /\ IdleMain
    /\ now \in ValidDateTimes
    /\ start_of_last_month = "unset"
    /\ chosen_start = "unset"
    /\ default_delta_month = 0
    /\ next_month = "unset"
    /\ chosen_end = "unset"
    /\ date_pc = "start"

\* main, lines 90-119, with the two date widgets left at their defaults and
\* the month delta either left at 1 or set by the user.
DefaultDateRange ==
    /\ date_pc = "start"
    /\ start_of_last_month' = get_start_of_last_month(now)
    /\ chosen_start' = DateOf(start_of_last_month')
    /\ default_delta_month' \in 0 .. MaxDeltaMonth
    /\ next_month' = AddMonths(chosen_start', default_delta_month')
    /\ chosen_end' = next_month'
    /\ date_pc' = "done"
    /\ UNCHANGED now
    /\ UNCHANGED <<mlc_vars, main_vars>>

NextDate == DefaultDateRange

SpecDate == InitDate /\ [][NextDate]_vars

-----------------------------------------------------------------------------
(* The dashboard's collaborators: configuration, connections, database *)

MaxSites == 2       \* site records in the configuration: 0 .. MaxSites
MaxRuns == 3        \* runs of main in one session

Keys == {"physics_qcl_location", "hostname", "port", "alias"}

SeqToSet(q) == {q[i] : i \in DOMAIN q}

SiteName(i) == <<"site", i>>

\* The value the i-th site's mosaiq block gives a key.  The sites share one
\* Mosaiq server and differ in their QCL location and alias.
MosaiqValue(i, key) ==
    CASE key = "physics_qcl_location" ->
             (IF i = 1 THEN <<"A">> ELSE IF i = 2 THEN <<" ", "B", " ">> ELSE <<"C">>)
      [] key = "hostname" -> <<"msqsql">>
      [] key = "port" -> <<1433>>
      [] key = "alias" -> <<"alias", i>>

\* The records the configuration may hold for the i-th site: a mosaiq block
\* with any subset of the four keys, no mosaiq block, or no name.
SiteRecords(i) ==
    {[has_name |-> TRUE, name |-> SiteName(i), has_mosaiq |-> TRUE,
      mosaiq |-> [k \in ks |-> MosaiqValue(i, k)]] : ks \in SUBSET Keys}
    \cup {[has_name |-> TRUE, name |-> SiteName(i), has_mosaiq |-> FALSE,
           mosaiq |-> [k \in {} |-> <<>>]]}
    \cup {[has_name |-> FALSE, name |-> SiteName(i), has_mosaiq |-> TRUE,
           mosaiq |-> [k \in Keys |-> MosaiqValue(i, k)]]}

Configs ==
    UNION {{f \in [1 .. n -> UNION {SiteRecords(i) : i \in 1 .. n}] :
               \A i \in 1 .. n : f[i] \in SiteRecords(i)} : n \in 0 .. MaxSites}

\* st_mosaiq.get_cached_mosaiq_connection(hostname, port, alias): the handle is
\* cached, so equal arguments give the same handle.
get_cached_mosaiq_connection(hostname, port, alias) ==
    [hostname |-> hostname, port |-> port, alias |-> alias]

DateTime(y, m, d, h) == [y |-> y, m |-> m, d |-> d, h |-> h]
Date(y, m, d) == [y |-> y, m |-> m, d |-> d]

\* Order-preserving keys of a datetime and of a date taken as its midnight.
DateTimeKey(dt) == ((dt.y * 12 + dt.m) * 31 + dt.d) * 24 + dt.h
DateKey(date) == ((date.y * 12 + date.m) * 31 + date.d) * 24

\* The tables the query reads (keys are unique and every reference resolves).
Staff == [i \in 1 .. 3 |-> <<<<"A", " ">>, <<"B">>, <<"Z">>>>[i]]
QCLTask == [i \in 1 .. 2 |-> <<<<"QA", 10>>, <<"QA", 2>>>>[i]]
Ident == [i \in 1 .. 2 |-> <<"ida", i>>]
Patient == [i \in 1 .. 2 |-> [Last_Name |-> <<"last", i>>, First_Name |-> <<"first", i>>]]

ChkRow(pat, tsk, staff, due, act) ==
    [Pat_ID1 |-> pat, TSK_ID |-> tsk, Rsp_Staff_ID |-> staff,
     Due_DtTm |-> due, Act_DtTm |-> act]

Chklist ==
    << ChkRow(1, 1, 1, DateTime(2021, 1, 5, 0), DateTime(2020, 12, 31, 23)),
       ChkRow(1, 2, 1, DateTime(2021, 1, 5, 8), DateTime(2021, 1, 1, 0)),
       ChkRow(2, 1, 1, DateTime(2021, 1, 25, 8), DateTime(2021, 1, 20, 13)),
       ChkRow(2, 2, 1, DateTime(2021, 2, 2, 8), DateTime(2021, 2, 1, 0)),
       ChkRow(1, 2, 2, DateTime(2021, 1, 9, 8), DateTime(2021, 1, 1, 0)),
       ChkRow(2, 2, 2, DateTime(2021, 1, 31, 8), DateTime(2021, 1, 31, 23)),
       ChkRow(1, 1, 2, DateTime(2021, 2, 1, 8), DateTime(2021, 2, 1, 9)),
       ChkRow(2, 1, 3, DateTime(2021, 1, 11, 8), DateTime(2021, 1, 10, 7)) >>

\* RTRIM(LTRIM(s))
RECURSIVE LTrim(_)
LTrim(str) == IF str # <<>> /\ Head(str) = " " THEN LTrim(Tail(str)) ELSE str
RECURSIVE RTrim(_)
RTrim(str) ==
    IF str # <<>> /\ str[Len(str)] = " " THEN RTrim(SubSeq(str, 1, Len(str) - 1)) ELSE str
Trim(str) == RTrim(LTrim(str))

\* The row the SELECT list makes of a Chklist row, labelled with the columns
\* of the DataFrame.
SelectedRow(c) ==
    [patient_id |-> Ident[c.Pat_ID1],
     last_name |-> Patient[c.Pat_ID1].Last_Name,
     first_name |-> Patient[c.Pat_ID1].First_Name,
     due |-> c.Due_DtTm,
     actual_completed_time |-> c.Act_DtTm,
     task |-> QCLTask[c.TSK_ID]]

RECURSIVE MapRows(_)
MapRows(rows) ==
    IF rows = <<>> THEN <<>> ELSE <<SelectedRow(Head(rows))>> \o MapRows(Tail(rows))

\* results.sort_values(by=["actual_completed_time"], ascending=False)
RECURSIVE InsertDescending(_, _)
InsertDescending(row, sorted) ==
    IF sorted = <<>> THEN <<row>>
    ELSE IF DateTimeKey(Head(sorted).actual_completed_time)
                >= DateTimeKey(row.actual_completed_time)
         THEN <<Head(sorted)>> \o InsertDescending(row, Tail(sorted))
         ELSE <<row>> \o sorted

RECURSIVE SortDescending(_)
SortDescending(rows) ==
    IF rows = <<>> THEN <<>>
    ELSE InsertDescending(Head(rows), SortDescending(Tail(rows)))

\* A variant whose upper bound is closed: Act_DtTm <= end.
get_qcls_by_date_closed(connection, location, start, end) ==
    LET Matches(c) ==
            /\ Trim(Staff[c.Rsp_Staff_ID]) = Trim(location)
            /\ DateTimeKey(c.Act_DtTm) >= DateKey(start)
            /\ DateTimeKey(c.Act_DtTm) <= DateKey(end)
    IN  SortDescending(MapRows(SelectSeq(Chklist, Matches)))

\* The query of _get_qcls_by_date, run on the connection's server with the
\* parameters location, start and end, and the sort that follows it.
get_qcls_by_date(connection, location, start, end) ==
    LET Matches(c) ==
            /\ Trim(Staff[c.Rsp_Staff_ID]) = Trim(location)
            /\ DateTimeKey(c.Act_DtTm) >= DateKey(start)
            /\ DateTimeKey(c.Act_DtTm) < DateKey(end)
    IN  SortDescending(MapRows(SelectSeq(Chklist, Matches)))

\* _pandas_convert_series_to_date on the columns due and actual_completed_time:
\* item.strftime("%Y-%m-%d") keeps year, month and day and drops the time.
RECURSIVE ConvertDates(_)
ConvertDates(rows) ==
    IF rows = <<>> THEN <<>>
    ELSE <<[Head(rows) EXCEPT !.due = DateOf(@),
                              !.actual_completed_time = DateOf(@)]>>
         \o ConvertDates(Tail(rows))

\* astype("datetime64[ns]") of the converted column: the date at midnight.
RECURSIVE AsDateTime(_)
AsDateTime(rows) ==
    IF rows = <<>> THEN <<>>
    ELSE <<[Head(rows) EXCEPT !.actual_completed_time =
                DateTime(@.y, @.m, @.d, 0)]>> \o AsDateTime(Tail(rows))

\* pd.concat(all_results.values()): the frames one after the other.
RECURSIVE Concat(_)
Concat(results) ==
    IF results = <<>> THEN <<>> ELSE Head(results)[2] \o Concat(Tail(results))

\* natsort.natsorted of the distinct tasks: by text, then by number.
RECURSIVE NatSorted(_)
NatSorted(tasks) ==
    IF tasks = {} THEN <<>>
    ELSE LET least == CHOOSE t \in tasks : \A u \in tasks : t[2] <= u[2]
         IN  <<least>> \o NatSorted(tasks \ {least})

Counts(rows) ==
    LET sorted == NatSorted({rows[i].task : i \in DOMAIN rows})
    IN  [n \in DOMAIN sorted |->
            <<sorted[n], Cardinality({i \in DOMAIN rows : rows[i].task = sorted[n]})>>]

-----------------------------------------------------------------------------
(* main *)

HasRequired(site_config) ==
    site_config.has_mosaiq /\ Keys \subseteq DOMAIN site_config.mosaiq

SiteEntry(site_config) ==
    [location |-> site_config.mosaiq["physics_qcl_location"],
     hostname |-> site_config.mosaiq["hostname"],
     port |-> site_config.mosaiq["port"],
     alias |-> site_config.mosaiq["alias"]]

Put(map, key, value) == [k \in DOMAIN map \cup {key} |-> IF k = key THEN value ELSE map[k]]

\* A variant that leaves the loop at the first site it cannot read.
RECURSIVE ConfigLoopBreak(_, _, _, _)
ConfigLoopBreak(cfg, i, map, order) ==
    IF i > Len(cfg) THEN [raised |-> "none", map |-> map, order |-> order]
    ELSE IF ~cfg[i].has_name THEN [raised |-> "KeyError", map |-> map, order |-> order]
    ELSE IF ~HasRequired(cfg[i]) THEN [raised |-> "none", map |-> map, order |-> order]
    ELSE ConfigLoopBreak(cfg, i + 1, Put(map, cfg[i].name, SiteEntry(cfg[i])),
                         IF cfg[i].name \in SeqToSet(order) THEN order
                         ELSE Append(order, cfg[i].name))

\* The loop over config["site"] from its i-th record on: a record without a
\* name raises, one without the mosaiq block or one of its four keys is
\* skipped, any other is entered under its name.
RECURSIVE ConfigLoop(_, _, _, _)
ConfigLoop(cfg, i, map, order) ==
    IF i > Len(cfg) THEN [raised |-> "none", map |-> map, order |-> order]
    ELSE IF ~cfg[i].has_name THEN [raised |-> "KeyError", map |-> map, order |-> order]
    ELSE IF ~HasRequired(cfg[i]) THEN ConfigLoop(cfg, i + 1, map, order)
    ELSE ConfigLoop(cfg, i + 1, Put(map, cfg[i].name, SiteEntry(cfg[i])),
                    IF cfg[i].name \in SeqToSet(order) THEN order
                    ELSE Append(order, cfg[i].name))

NowChoices == {DateTime(2021, 2, 15, 10), DateTime(2021, 3, 31, 23)}
DateChoices == {Date(2021, 1, 1), Date(2021, 2, 1)}

RunLocals ==
    /\ raised = "none"
    /\ site_config_map = <<>>
    /\ site_options = <<>>
    /\ selected_sites = <<>>
    /\ connections = <<>>
    /\ pressed = FALSE
    /\ widget_keys = <<>>
    /\ all_results = <<>>
    /\ concatenated_results = <<>>
    /\ markdown_counts = <<>>
    /\ log = <<>>
    /\ now = "unset"
    /\ start_of_last_month = "unset"
    /\ chosen_start = "unset"
    /\ default_delta_month = 0
    /\ next_month = "unset"
    /\ chosen_end = "unset"
    /\ date_pc = "idle"

\* The same locals at the start of a later run.
FreshLocals ==
    /\ raised' = "none"
    /\ site_config_map' = <<>>
    /\ site_options' = <<>>
    /\ selected_sites' = <<>>
    /\ connections' = <<>>
    /\ pressed' = FALSE
    /\ widget_keys' = <<>>
    /\ all_results' = <<>>
    /\ concatenated_results' = <<>>
    /\ markdown_counts' = <<>>
    /\ log' = <<>>
    /\ now' = "unset"
    /\ start_of_last_month' = "unset"
    /\ chosen_start' = "unset"
    /\ default_delta_month' = 0
    /\ next_month' = "unset"
    /\ chosen_end' = "unset"
    /\ date_pc' = "idle"

InitMain ==
    /\ IdleMlc
    /\ config \in Configs
    /\ reset_widget_id = 0
    /\ widget_ids = {}
    /\ run = 1
    /\ id_at_start = 0
    /\ presses = 0
    /\ main_pc = "start"
    /\ RunLocals

session == <<config, reset_widget_id, widget_ids, run, id_at_start, presses>>

\* Lines 35-58: the session state, the configuration loop and the test for an
\* empty site_config_map.
MainConfig ==
    /\ main_pc = "start"
    /\ \E r \in {ConfigLoop(config, 1, <<>>, <<>>)} :
           /\ raised' = r.raised
           /\ site_config_map' = r.map
           /\ main_pc' = IF r.raised # "none" THEN "error"
                         ELSE IF Cardinality(DOMAIN r.map) = 0 THEN "warn"
                         ELSE "select"
           /\ site_options' = IF r.raised = "none" THEN r.order ELSE <<>>
    /\ UNCHANGED <<mlc_vars, date_vars, session, selected_sites, connections,
                   pressed, widget_keys, all_results, concatenated_results,
                   markdown_counts, log>>

\* Line 59: st.warning.
Warn ==
    /\ main_pc = "warn"
    /\ log' = Append(log, <<"warning">>)
    /\ main_pc' = "stop"
    /\ UNCHANGED <<mlc_vars, date_vars, session, raised, site_config_map,
                   site_options, selected_sites, connections, pressed,
                   widget_keys, all_results, concatenated_results, markdown_counts>>

\* A variant in which the script carries on after the warning.
StopFallsThrough ==
    /\ main_pc = "stop"
    /\ log' = Append(log, <<"stop">>)
    /\ main_pc' = "select"
    /\ UNCHANGED <<mlc_vars, date_vars, session, raised, site_config_map,
                   site_options, selected_sites, connections, pressed,
                   widget_keys, all_results, concatenated_results, markdown_counts>>

\* Line 62: st.stop ends the run.
Stop ==
    /\ main_pc = "stop"
    /\ log' = Append(log, <<"stop">>)
    /\ main_pc' = "stopped"
    /\ UNCHANGED <<mlc_vars, date_vars, session, raised, site_config_map,
                   site_options, selected_sites, connections, pressed,
                   widget_keys, all_results, concatenated_results, markdown_counts>>

\* The sites of options, in order, that are in ticked.
Ticked(options, ticked) == SelectSeq(options, LAMBDA s : s \in ticked)

RECURSIVE CheckboxEvents(_, _)
CheckboxEvents(options, map) ==
    IF options = <<>> THEN <<>>
    ELSE <<<<"checkbox", map[Head(options)].alias>>>> \o CheckboxEvents(Tail(options), map)

\* Lines 64-75: one checkbox per site, labelled with its alias; the user
\* leaves any of them ticked.
SelectSites ==
    /\ main_pc = "select"
    /\ \E ticked \in SUBSET SeqToSet(site_options) :
           selected_sites' = Ticked(site_options, ticked)
    /\ log' = log \o CheckboxEvents(site_options, site_config_map)
    /\ main_pc' = "connect"
    /\ UNCHANGED <<mlc_vars, date_vars, session, raised, site_config_map,
                   site_options, connections, pressed, widget_keys, all_results,
                   concatenated_results, markdown_counts>>

get_connection_for_site_config(site_config) ==
    get_cached_mosaiq_connection(site_config.hostname, site_config.port, site_config.alias)

RECURSIVE get_connections(_, _)
get_connections(map, sites) ==
    IF sites = <<>> THEN <<>>
    ELSE <<<<Head(sites), get_connection_for_site_config(map[Head(sites)])>>>>
         \o get_connections(map, Tail(sites))

RECURSIVE ConnectEvents(_)
ConnectEvents(conns) ==
    IF conns = <<>> THEN <<>>
    ELSE <<<<"connect", Head(conns)[1], Head(conns)[2]>>>> \o ConnectEvents(Tail(conns))

\* Line 77: _get_connections.
GetConnections ==
    /\ main_pc = "connect"
    /\ connections' = get_connections(site_config_map, selected_sites)
    /\ log' = log \o ConnectEvents(connections')
    /\ main_pc' = "button"
    /\ UNCHANGED <<mlc_vars, date_vars, session, raised, site_config_map,
                   site_options, selected_sites, pressed, widget_keys,
                   all_results, concatenated_results, markdown_counts>>

\* A variant that never moves the counter.
WidgetIdKept(id, was_pressed) == id

\* Lines 93-94: the counter after the button.
NextWidgetId(id, was_pressed) == IF was_pressed THEN id + 1 ELSE id

\* Lines 90-94: now, the start of last month and the reset button.
ResetButton ==
    /\ main_pc = "button"
    /\ now' \in NowChoices
    /\ start_of_last_month' = get_start_of_last_month(now')
    /\ pressed' \in BOOLEAN
    /\ reset_widget_id' = NextWidgetId(reset_widget_id, pressed')
    /\ presses' = IF pressed' THEN presses + 1 ELSE presses
    /\ main_pc' = "dates"
    /\ UNCHANGED <<mlc_vars, chosen_start, default_delta_month, next_month,
                   chosen_end, date_pc, config, widget_ids, run, id_at_start,
                   raised, site_config_map, site_options, selected_sites,
                   connections, widget_keys, all_results, concatenated_results,
                   markdown_counts, log>>

\* What a widget returns: its default while its key is new, else the default
\* or what the user has set it to.
WidgetValues(id, default, choices) ==
    IF id \in widget_ids THEN {default} \cup choices ELSE {default}

\* Lines 96-119: the three widgets, each keyed with the counter.
DateInputs ==
    /\ main_pc = "dates"
    /\ widget_keys' = [chosen_start |-> reset_widget_id,
                       default_delta_month |-> reset_widget_id,
                       chosen_end |-> reset_widget_id]
    /\ chosen_start' \in
           WidgetValues(reset_widget_id, DateOf(start_of_last_month), DateChoices)
    /\ default_delta_month' \in WidgetValues(reset_widget_id, 1, 0 .. MaxDeltaMonth)
    /\ next_month' = AddMonths(chosen_start', default_delta_month')
    /\ chosen_end' \in WidgetValues(reset_widget_id, next_month', DateChoices)
    /\ widget_ids' = widget_ids \cup {reset_widget_id}
    /\ main_pc' = "query"
    /\ UNCHANGED <<mlc_vars, now, start_of_last_month, date_pc, config,
                   reset_widget_id, run, id_at_start, presses, raised,
                   site_config_map, site_options, selected_sites, connections,
                   pressed, all_results, concatenated_results, markdown_counts,
                   log>>

\* _get_all_results: one query per connection with the site's location, then
\* the two date columns converted.  Returns <<all_results, events>>.
RECURSIVE get_all_results(_, _, _, _)
get_all_results(map, conns, start, end) ==
    IF conns = <<>> THEN <<<<>>, <<>>>>
    ELSE LET site == Head(conns)[1]
             location == map[site].location
             results == get_qcls_by_date(Head(conns)[2], location, start, end)
             rest == get_all_results(map, Tail(conns), start, end)
         IN  << <<<<site, ConvertDates(results)>>>> \o rest[1],
                <<<<"execute", site, Head(conns)[2], location, start, end, results>>>>
                    \o rest[2] >>

\* Lines 127-129.
GetAllResults ==
    /\ main_pc = "query"
    /\ \E r \in {get_all_results(site_config_map, connections, chosen_start, chosen_end)} :
           /\ all_results' = r[1]
           /\ log' = log \o r[2]
    /\ main_pc' = "results"
    /\ UNCHANGED <<mlc_vars, date_vars, session, raised, site_config_map,
                   site_options, selected_sites, connections, pressed,
                   widget_keys, concatenated_results, markdown_counts>>

\* Lines 131-155: pd.concat raises ValueError when it is given no frame;
\* otherwise the chart, the table of every site and the counts are written.
ShowResults ==
    /\ main_pc = "results"
    /\ IF all_results = <<>>
       THEN /\ raised' = "ValueError"
            /\ main_pc' = "error"
            /\ UNCHANGED <<concatenated_results, markdown_counts, log>>
       ELSE /\ concatenated_results' = AsDateTime(Concat(all_results))
            /\ markdown_counts' = Counts(concatenated_results')
            /\ log' = log \o <<<<"chart">>, <<"tables", Len(all_results)>>, <<"counts">>>>
            /\ main_pc' = "done"
            /\ UNCHANGED raised
    /\ UNCHANGED <<mlc_vars, date_vars, session, site_config_map, site_options,
                   selected_sites, connections, pressed, widget_keys, all_results>>

\* The host runs main again on the next interaction; only the session state
\* and the widgets' identities outlive a run.
Rerun ==
    /\ main_pc \in {"done", "stopped", "error"}
    /\ run < MaxRuns
    /\ run' = run + 1
    /\ id_at_start' = reset_widget_id
    /\ main_pc' = "start"
    /\ FreshLocals
    /\ UNCHANGED <<mlc_vars, config, reset_widget_id, widget_ids, presses>>

NextMain ==
    \/ MainConfig
    \/ Warn
    \/ Stop
    \/ SelectSites
    \/ GetConnections
    \/ ResetButton
    \/ DateInputs
    \/ GetAllResults
    \/ ShowResults
    \/ Rerun

SpecMain == InitMain /\ [][NextMain]_vars

-----------------------------------------------------------------------------
(* Properties of the accumulator *)

Stationary == left_mlc[1] = left_mlc[2] /\ right_mlc[1] = right_mlc[2]

\* Twice the length of the part of the cell [c - res/2, c + res/2] that lies
\* in the aperture [l, r].
Overlap2(c, l, r, res) ==
    Max2(0, Min2(2 * c + res, 2 * r) - Max2(2 * c - res, 2 * l))

\* The same at sample i of the call in the state, scaled by Steps(time_steps).
CoverAt(c, i) ==
    LET centre == 2 * Steps(time_steps) * c
        half == Steps(time_steps) * grid_resolution
        l == Travel(left_mlc[1], left_mlc[2], i, time_steps)
        r == Travel(right_mlc[1], right_mlc[2], i, time_steps)
    IN  Max2(0, Min2(centre + half, r) - Max2(centre - half, l))

RECURSIVE SumCover(_, _, _)
SumCover(c, lo, hi) ==
    IF lo > hi THEN 0
    ELSE IF lo = hi THEN CoverAt(c, lo)
    ELSE LET mid == (lo + hi) \div 2
         IN  SumCover(c, lo, mid) + SumCover(c, mid + 1, hi)

\* Number of samples at which the centre c lies strictly between the edges.
OpenCount(c) ==
    Cardinality({i \in 0 .. time_steps - 1 :
        /\ Travel(left_mlc[1], left_mlc[2], i, time_steps) < 2 * Steps(time_steps) * c
        /\ 2 * Steps(time_steps) * c < Travel(right_mlc[1], right_mlc[2], i, time_steps)})

\* C1: when neither leaf moves, the density of every cell is the fraction of
\* the cell's width inside the aperture, whatever time_steps is; the call of
\* test_stationary_partial_occlusion returns the five cells -1, 0, 1, 2, 3
\* with densities 0.5, 1, 1, 1, 0.2.
C1_StationaryCoverage ==
    /\ (mlc_pc = "returned" /\ Stationary) =>
           \A k \in DOMAIN x :
               \* mu / Den = Overlap2 / (2 * res), with Den = 2 * res * T * Steps(T)
               mu_density[k] =
                   Overlap2(x[k], left_mlc[1], right_mlc[1], grid_resolution)
                       * time_steps * Steps(time_steps)
    /\ (mlc_pc = "returned" /\ test = "stationary") =>
           /\ x = <<-100, 0, 100, 200, 300>>
           /\ \A k \in DOMAIN x :
                  mu_density[k] * 10 =
                      <<5, 10, 10, 10, 2>>[k] * Den(grid_resolution, time_steps)

C1_Witness ==
    /\ mlc_pc = "returned"
    /\ test = "stationary"
    /\ Len(mu_density) = 5
    /\ mu_density[5] * 5 = Den(grid_resolution, time_steps)

\* C2 as stated: the density of every cell is the number of samples at which
\* the cell's centre lies strictly between the edges, over time_steps.
C2_OpenSampleCount ==
    mlc_pc = "returned" =>
        \A k \in DOMAIN x :
            mu_density[k] = OpenCount(x[k]) * 2 * Steps(time_steps) * grid_resolution

\* C2 amended: the density of every cell is the mean over the samples of the
\* fraction of the cell's width that lies between the edges at that sample.
C2_MeanCoverage ==
    mlc_pc = "returned" =>
        \A k \in DOMAIN x : mu_density[k] = SumCover(x[k], 0, time_steps - 1)

C2_Witness ==
    /\ mlc_pc = "returned"
    /\ ~Stationary
    /\ time_steps > 1
    /\ \E k \in DOMAIN x :
           /\ mu_density[k] > 0
           /\ mu_density[k] # OpenCount(x[k]) * 2 * Steps(time_steps) * grid_resolution

\* C4: for valid arguments the densities are as many as the grid cells and
\* each lies in [0, 1].
C4_Bounds ==
    mlc_pc = "returned" =>
        /\ Len(mu_density) = Len(x)
        /\ \A k \in DOMAIN mu_density :
               0 <= mu_density[k] /\ mu_density[k] <= Den(grid_resolution, time_steps)

C4_Witness ==
    /\ mlc_pc = "returned"
    /\ ~Stationary
    /\ left_mlc[1] > right_mlc[1]
    /\ Len(x) > 2
    /\ \E k \in DOMAIN mu_density :
           0 < mu_density[k] /\ mu_density[k] < Den(grid_resolution, time_steps)
    /\ \E k \in DOMAIN mu_density : mu_density[k] = 0

\* |sum / count * ratio - coarse| <= tol, without a product beyond 32 bits.
Close(sum, count, ratio, coarse, tol) ==
    LET q == sum \div count
        rem == sum % count
        d == coarse - ratio * q
        lowfrac == (ratio * rem) \div count
        highfrac == (ratio * rem + count - 1) \div count
    IN  d - tol <= lowfrac /\ highfrac <= d + tol

\* C3: with the fine cells assigned to their nearest coarse cell, the mean of
\* the fine densities of a coarse cell is within 0.01 of that cell's coarse
\* density, for every coarse cell but the two at each end.
C3_Convergence ==
    mlc_pc = "averaged" =>
        /\ Len(average_mu_density_fine) = Max2(0, Len(x) - 4)
        /\ \A n \in DOMAIN average_mu_density_fine :
               /\ average_mu_density_fine[n][2] > 0
               /\ Close(average_mu_density_fine[n][1],
                        average_mu_density_fine[n][2],
                        CoarseResolution \div FineResolution,
                        mu_density[n + 2],
                        Den(CoarseResolution, time_steps) \div 100)

C3_Witness ==
    /\ mlc_pc = "averaged"
    /\ left_mlc = <<-230, 310>>
    /\ right_mlc = <<0, 770>>
    /\ time_steps = TestTimeSteps
    /\ Len(x) = 11
    /\ Len(x_fine) = 1001
    /\ Len(average_mu_density_fine) = 7
    /\ \E n \in DOMAIN average_mu_density_fine :
           /\ 0 < mu_density[n + 2]
           /\ mu_density[n + 2] < Den(CoarseResolution, time_steps)
           /\ ~Close(average_mu_density_fine[n][1], average_mu_density_fine[n][2],
                     CoarseResolution \div FineResolution, mu_density[n + 2], 0)

-----------------------------------------------------------------------------
(* Properties of the dashboard *)

\* The configuration loop has run to its end in this run.
LoopDone == main_pc \notin {"idle", "start"} /\ raised # "KeyError"

AllNamed == \A i \in DOMAIN config : config[i].has_name

\* C5: after the loop site_config_map has an entry for a site exactly if the
\* site's record has a mosaiq block with all four keys; the entry holds that
\* site's location, hostname, port and alias; a site without them raises
\* nothing and leaves the other sites' entries alone.
C5_SiteFiltering ==
    (main_pc \notin {"idle", "start"} /\ AllNamed) =>
        /\ raised # "KeyError"
        /\ DOMAIN site_config_map \subseteq {config[i].name : i \in DOMAIN config}
        /\ \A i \in DOMAIN config :
               /\ config[i].name \in DOMAIN site_config_map <=>
                      (config[i].has_mosaiq /\ DOMAIN config[i].mosaiq = Keys)
               /\ config[i].name \in DOMAIN site_config_map =>
                      site_config_map[config[i].name] =
                          [location |-> MosaiqValue(i, "physics_qcl_location"),
                           hostname |-> MosaiqValue(i, "hostname"),
                           port |-> MosaiqValue(i, "port"),
                           alias |-> MosaiqValue(i, "alias")]

C5_Witness ==
    /\ main_pc = "select"
    /\ Len(config) = 2
    /\ config[1].has_mosaiq
    /\ DOMAIN config[1].mosaiq = Keys \ {"alias"}
    /\ DOMAIN site_config_map = {SiteName(2)}

\* C6: with no site left by the filter, main warns, then stops, raises
\* nothing, and shows no checkbox, asks for no connection and runs no query.
C6_EmptyCandidateSet ==
    (LoopDone /\ DOMAIN site_config_map = {}) =>
        /\ raised = "none"
        /\ main_pc \in {"warn", "stop", "stopped"}
        /\ main_pc = "warn" => log = <<>>
        /\ main_pc = "stop" => log = <<<<"warning">>>>
        /\ main_pc = "stopped" => log = <<<<"warning">>, <<"stop">>>>
        /\ selected_sites = <<>>
        /\ connections = <<>>
        /\ all_results = <<>>

C6_Witness ==
    /\ main_pc = "stopped"
    /\ Len(config) = 2
    /\ DOMAIN site_config_map = {}
    /\ log = <<<<"warning">>, <<"stop">>>>

\* a is earlier than b, field by field.
Earlier(a, b) ==
    \/ a.y < b.y
    \/ a.y = b.y /\ a.m < b.m
    \/ a.y = b.y /\ a.m = b.m /\ a.d < b.d
    \/ a.y = b.y /\ a.m = b.m /\ a.d = b.d /\ a.h < b.h

Midnight(date) == DateTime(date.y, date.m, date.d, 0)

\* The checklist rows of a location completed at or after start and before end.
RowsIn(location, start, end) ==
    {k \in DOMAIN Chklist :
        /\ Trim(Staff[Chklist[k].Rsp_Staff_ID]) = Trim(location)
        /\ ~Earlier(Chklist[k].Act_DtTm, Midnight(start))
        /\ Earlier(Chklist[k].Act_DtTm, Midnight(end))}

\* C7: every query is made with the queried site's own location and the
\* chosen start and end, and yields exactly the checklist rows of that
\* location with start <= completion time < end.
C7_HalfOpenDateFilter ==
    \A n \in DOMAIN log :
        log[n][1] = "execute" =>
            /\ \E i \in DOMAIN config :
                   /\ config[i].name = log[n][2]
                   /\ log[n][4] = MosaiqValue(i, "physics_qcl_location")
            /\ log[n][5] = chosen_start
            /\ log[n][6] = chosen_end
            /\ SeqToSet(log[n][7]) =
                   {SelectedRow(Chklist[k]) : k \in RowsIn(log[n][4], log[n][5], log[n][6])}
            /\ Len(log[n][7]) = Cardinality(RowsIn(log[n][4], log[n][5], log[n][6]))

C7_Witness ==
    \E n \in DOMAIN log :
        /\ log[n][1] = "execute"
        /\ log[n][2] = SiteName(1)
        /\ log[n][5] = Date(2021, 1, 1)
        /\ log[n][6] = Date(2021, 2, 1)
        /\ \E r \in DOMAIN log[n][7] :
               log[n][7][r].actual_completed_time = DateTime(2021, 1, 1, 0)
        /\ \A r \in DOMAIN log[n][7] :
               log[n][7][r].actual_completed_time # DateTime(2021, 2, 1, 0)
        /\ \E k \in DOMAIN Chklist :
               /\ Trim(Staff[Chklist[k].Rsp_Staff_ID]) = <<"A">>
               /\ Chklist[k].Act_DtTm = DateTime(2021, 2, 1, 0)

WidgetsShown ==
    main_pc \in {"query", "results", "done"} \/ (main_pc = "error" /\ raised = "ValueError")

\* C9: the counter starts at 0, goes up by one in exactly the runs in which
\* the button was pressed, so it counts the presses; the three widgets of a run
\* all carry the counter in their keys, and after a press no widget has had
\* that value in its key before.
C9_ResetCounter ==
    main_pc # "idle" =>
        /\ reset_widget_id = presses
        /\ reset_widget_id = id_at_start + (IF pressed THEN 1 ELSE 0)
        /\ run = 1 => id_at_start = 0
        /\ WidgetsShown =>
               /\ widget_keys.chosen_start = reset_widget_id
               /\ widget_keys.default_delta_month = reset_widget_id
               /\ widget_keys.chosen_end = reset_widget_id
        /\ (main_pc = "dates" /\ pressed) => reset_widget_id \notin widget_ids

C9_Witness ==
    /\ main_pc = "query"
    /\ run = 3
    /\ pressed
    /\ reset_widget_id = 2
    /\ widget_ids = {1, 2}
    /\ widget_keys.chosen_end = 2

EventSites(kind) == {log[n][2] : n \in {m \in DOMAIN log : log[m][1] = kind}}

\* C10: when a site passes the filter, then whatever sites are ticked, none
\* included, connections and queries are made for just the ticked sites and
\* main goes through the results stage without an error.
C10_AnySelectionReachesResults ==
    (LoopDone /\ DOMAIN site_config_map # {}) =>
        /\ raised = "none"
        /\ main_pc \in {"button", "dates", "query", "results", "done"} =>
               EventSites("connect") = SeqToSet(selected_sites)
        /\ main_pc \in {"results", "done"} =>
               EventSites("execute") = SeqToSet(selected_sites)

-----------------------------------------------------------------------------
(* Properties of the default date range *)

\* C8: the default start is day 1 of the month before now's month (December
\* of the year before when now is in January), and with the month delta at 1
\* the default end is day 1 of now's own month.
C8_DefaultRange ==
    date_pc = "done" =>
        /\ start_of_last_month.d = 1
        /\ start_of_last_month.h = now.h
        /\ IF now.m = 1
           THEN start_of_last_month.y = now.y - 1 /\ start_of_last_month.m = 12
           ELSE start_of_last_month.y = now.y /\ start_of_last_month.m = now.m - 1
        /\ chosen_start = [y |-> start_of_last_month.y, m |-> start_of_last_month.m, d |-> 1]
        /\ default_delta_month = 1 =>
               chosen_end = [y |-> now.y, m |-> now.m, d |-> 1]

C8_Witness ==
    /\ date_pc = "done"
    /\ now.m = 1
    /\ now.d = 31
    /\ default_delta_month = 1
    /\ chosen_start.m = 12
    /\ chosen_end = [y |-> now.y, m |-> 1, d |-> 1]

====
